---- MODULE Spec2Model ----
(***************************************************************************)
(* A model of the hash-linked ledger of package blockchain                 *)
(* (Block, Blockchain, calculateHash, mine, CreateBlockchain,              *)
(* AddTransaction, IsValid).                                               *)
(*                                                                         *)
(* Strings that hold hashes are represented by what the program looks at:  *)
(* their length, the number of leading '0' characters and the bytes that   *)
(* were hashed (pre).  A SHA-256 digest is a string of HashLen hex         *)
(* characters that is determined by its preimage and determines it         *)
(* (collision resistance); the number of its leading zeros is a fixed      *)
(* function of the preimage (LeadingZeros).                                *)
(***************************************************************************)
EXTENDS Integers, Sequences, FiniteSets, TLC

(* ----------------------------- bounds ---------------------------------- *)
\* number of AddTransaction calls that may be started
MaxCalls == 3
\* largest reading of the clock (time.Now)
MaxTime == 1
\* width in bits of the model's int (Go: 64)
IntBits == 3
\* largest target below HashLen handed to CreateBlockchain
MaxDifficulty == 2
\* the count of calculateHash calls saturates here
MaxCount == 2

(* --------------------------- program constants ------------------------- *)
\* hex characters of fmt.Sprintf("%x", sha256.Sum256(..))
HashLen == 64

MaxInt == 2 ^ (IntBits - 1) - 1
MinInt == 0 - 2 ^ (IntBits - 1)

\* the goroutines that may call into one Blockchain
Procs == {1, 2}

\* arguments of CreateBlockchain: a negative one, 0, satisfiable targets and
\* one target longer than any digest
Difficulties == (-1 .. MaxDifficulty) \cup {HashLen + 1}

\* float64 values that encoding/json refuses to encode
NonFinite == {"+Inf", "-Inf"}
\* arguments of AddTransaction
Transactions ==
    { <<"Alice", "Bob", "5">>, <<"John", "Bob", "+Inf">> }
\* values an out-of-band write may store in a payload field
TamperNames == {"Alice", "Bob", "John"}
TamperAmounts == {"5", "2", "999", "+Inf", "-Inf"}

(* ------------------------------ strings -------------------------------- *)
\* the empty string (zero value of Block.hash and Block.previousHash)
EmptyString == [len |-> 0, zeros |-> 0, pre |-> <<>>]
\* the string "0" (hash of the genesis block)
ZeroString == [len |-> 1, zeros |-> 1, pre |-> <<>>]

\* strings.HasPrefix(s, strings.Repeat("0", n)) for n >= 0
HasZeroPrefix(s, n) == n <= s.zeros

(* ------------------------------- Block --------------------------------- *)
\* the nil map of the genesis block
NilData == {}
\* map[string]interface{}{"from": from, "to": to, "amount": amount}
BlockData(from, to, amount) ==
    { <<"from", from>>, <<"to", to>>, <<"amount", amount>> }
Get(data, key) == CHOOSE v \in TamperNames \cup TamperAmounts : <<key, v>> \in data

\* json.Marshal(b.data) with its error dropped: "null" for the nil map, no
\* bytes at all when a value cannot be encoded, else the object with its
\* keys in sorted order
MarshalJSON(data) ==
    IF data = NilData THEN <<"null">>
    ELSE IF Get(data, "amount") \in NonFinite THEN <<>>
    ELSE <<"amount", Get(data, "amount"), "from", Get(data, "from"),
           "to", Get(data, "to")>>

Code(s) ==
    CASE s = "Alice" -> 1 [] s = "Bob" -> 2 [] s = "John" -> 3
      [] s = "5" -> 5 [] s = "2" -> 2 [] s = "999" -> 9
      [] OTHER -> 0

RECURSIVE SumCodes(_)
SumCodes(seq) == IF seq = <<>> THEN 0 ELSE Code(Head(seq)) + SumCodes(Tail(seq))

RECURSIVE TrailingZeros(_)
TrailingZeros(n) == IF n % 2 = 1 THEN 0 ELSE 1 + TrailingZeros(n \div 2)

\* number of leading '0' characters of the digest of blockData
LeadingZeros(blockData) ==
    LET mix == 1 + blockData[1].len + blockData[1].zeros + SumCodes(blockData[2])
                 + blockData[3] + (blockData[4] - MinInt)
        tz == TrailingZeros(mix)
    IN  IF tz < HashLen THEN tz ELSE HashLen

\* fmt.Sprintf("%x", sha256.Sum256([]byte(blockData)))
Sha256Hex(blockData) ==
    [len |-> HashLen, zeros |-> LeadingZeros(blockData), pre |-> blockData]

calculateHash(b) ==
    Sha256Hex(<<b.previousHash, MarshalJSON(b.data), b.timestamp, b.pow>>)

\* b.pow++ that stops at the largest int
NextPowSaturating(pow) == IF pow = MaxInt THEN MaxInt ELSE pow + 1

\* b.pow++ on a two's complement int
NextPow(pow) == IF pow = MaxInt THEN MinInt ELSE pow + 1

(* ------------------------------- state --------------------------------- *)
VARIABLES
    genesisBlock,   \* Blockchain.genesisBlock
    chain,          \* Blockchain.chain: its elements
    chainCap,       \* Blockchain.chain: cap()
    chainArr,       \* Blockchain.chain: identity of the backing array
    difficulty,     \* Blockchain.difficulty
    now,            \* the clock read by time.Now()
    pc,             \* per caller: position inside AddTransaction
    lastBlock,      \* per caller: local lastBlock of AddTransaction
    newBlock,       \* per caller: local newBlock of AddTransaction
    base,           \* per caller: the slice b.chain as loaded by append
    hashes,         \* per caller: calculateHash calls of the running/last mine
    started,        \* AddTransaction calls started
    returned,       \* per caller: AddTransaction calls that returned
    allocs,         \* backing arrays allocated so far
    validResult,    \* value of the last IsValid() on the present ledger
    tamper          \* kind of out-of-band write applied to the ledger

vars == <<genesisBlock, chain, chainCap, chainArr, difficulty, now, pc, lastBlock,
          newBlock, base, hashes, started, returned, allocs, validResult, tamper>>

\* the zero value of Block
ZeroBlock ==
    [data |-> NilData, hash |-> EmptyString, previousHash |-> EmptyString,
     timestamp |-> 0, pow |-> 0]

\* the nil slice
NilSlice == [elems |-> <<>>, cap |-> 0, arr |-> 0]

\* a CreateBlockchain that takes the difficulty its comment calls the default
CreateBlockchainDefault(d, ts) ==
    LET g == [ZeroBlock EXCEPT !.hash = ZeroString, !.timestamp = ts]
    IN  [genesisBlock |-> g, chain |-> <<g>>, difficulty |-> 2]

\* CreateBlockchain(d) at clock reading ts
CreateBlockchain(d, ts) ==
    LET g == [ZeroBlock EXCEPT !.hash = ZeroString, !.timestamp = ts]
    IN  [genesisBlock |-> g, chain |-> <<g>>, difficulty |-> d]

Init ==
    \E d \in Difficulties :
        LET bc == CreateBlockchain(d, 0) IN
        /\ genesisBlock = bc.genesisBlock
        /\ chain = bc.chain
        /\ chainCap = 1
        /\ chainArr = 1
        /\ allocs = 1
        /\ difficulty = bc.difficulty
        /\ now = 0
        /\ pc = [p \in Procs |-> "idle"]
        /\ lastBlock = [p \in Procs |-> ZeroBlock]
        /\ newBlock = [p \in Procs |-> ZeroBlock]
        /\ base = [p \in Procs |-> NilSlice]
        /\ hashes = [p \in Procs |-> 0]
        /\ started = 0
        /\ returned = [p \in Procs |-> 0]
        /\ validResult = "none"
        /\ tamper = "none"

\* IsValid() with the linkage comparison left out
IsValidNoLink(c) ==
    \A i \in 1 .. Len(c) - 1 : ~ (c[i + 1].hash /= calculateHash(c[i + 1]))

\* IsValid() that also recomputes the hash of the genesis block
IsValidFromGenesis(c) ==
    \A i \in 0 .. Len(c) - 1 :
        ~ (c[i + 1].hash /= calculateHash(c[i + 1])
           \/ (i >= 1 /\ c[i + 1].previousHash /= c[i].hash))

\* IsValid() that first requires the genesis block to be as CreateBlockchain
\* made it
IsValidGenesisIntact(c) ==
    /\ c[1].data = NilData /\ c[1].pow = 0 /\ c[1].timestamp = 0
    /\ \A i \in 0 .. Len(c) - 2 :
        LET previousBlock == c[i + 1]
            currentBlock == c[i + 2]
        IN  ~ (currentBlock.hash /= calculateHash(currentBlock)
               \/ currentBlock.previousHash /= previousBlock.hash)

\* IsValid() that also holds every block against the difficulty target
IsValidWithTarget(c) ==
    \A i \in 0 .. Len(c) - 2 :
        LET previousBlock == c[i + 1]
            currentBlock == c[i + 2]
        IN  ~ (currentBlock.hash /= calculateHash(currentBlock)
               \/ currentBlock.previousHash /= previousBlock.hash
               \/ ~ HasZeroPrefix(currentBlock.hash, difficulty))

\* IsValid(): the loop over b.chain[1:]; i is the index into b.chain[1:]
IsValid(c) ==
    \A i \in 0 .. Len(c) - 2 :
        LET previousBlock == c[i + 1]
            currentBlock == c[i + 2]
        IN  ~ (currentBlock.hash /= calculateHash(currentBlock)
               \/ currentBlock.previousHash /= previousBlock.hash)

(* ------------------------- AddTransaction ------------------------------ *)
\* the first block instead of the last
FirstBlockOf(c) == c[1]

\* b.chain[len(b.chain)-1]
LastBlockOf(c) == c[Len(c)]

\* Block{data: blockData, previousHash: lastBlock.hash, timestamp: time.Now()}
NewBlock(tx, last, ts) ==
    [ZeroBlock EXCEPT !.data = BlockData(tx[1], tx[2], tx[3]),
                      !.previousHash = last.hash,
                      !.timestamp = ts]

\* lines 100-110: blockData, lastBlock, newBlock
Begin(p) ==
    /\ pc[p] = "idle"
    /\ started < MaxCalls
    /\ \E tx \in Transactions, ts \in now .. MaxTime :
        /\ now' = ts
        /\ lastBlock' = [lastBlock EXCEPT ![p] = LastBlockOf(chain)]
        /\ newBlock' = [newBlock EXCEPT ![p] = NewBlock(tx, LastBlockOf(chain), ts)]
    /\ pc' = [pc EXCEPT ![p] = "mine"]
    /\ hashes' = [hashes EXCEPT ![p] = 0]
    /\ started' = started + 1
    /\ UNCHANGED <<genesisBlock, chain, chainCap, chainArr, difficulty, base,
                   returned, allocs, validResult, tamper>>

\* a mine for which a negative count repeats to the empty string
MineNoPanic(p) ==
    /\ pc[p] = "mine"
    /\ difficulty < 0
    /\ pc' = [pc EXCEPT ![p] = "append"]
    /\ UNCHANGED <<genesisBlock, chain, chainCap, chainArr, difficulty, now,
                   lastBlock, newBlock, base, hashes, started, returned, allocs,
                   validResult, tamper>>

\* mine: strings.Repeat panics on a negative count and the program ends
MinePanic(p) ==
    /\ pc[p] = "mine"
    /\ difficulty < 0
    /\ pc' = [q \in Procs |-> "panic"]
    /\ UNCHANGED <<genesisBlock, chain, chainCap, chainArr, difficulty, now,
                   lastBlock, newBlock, base, hashes, started, returned, allocs,
                   validResult, tamper>>

\* a loop condition that asks for one zero less
MineContinuesShort(b, d) == ~ HasZeroPrefix(b.hash, d - 1)

\* the loop condition of mine
MineContinues(b, d) == ~ HasZeroPrefix(b.hash, d)

\* the loop body of mine
MineBody(b) ==
    LET b1 == [b EXCEPT !.pow = NextPow(@)]
    IN  [b1 EXCEPT !.hash = calculateHash(b1)]

\* mine: one iteration
MineStep(p) ==
    /\ pc[p] = "mine"
    /\ difficulty >= 0
    /\ MineContinues(newBlock[p], difficulty)
    /\ newBlock' = [newBlock EXCEPT ![p] = MineBody(@)]
    /\ hashes' = [hashes EXCEPT ![p] = IF @ < MaxCount THEN @ + 1 ELSE @]
    /\ UNCHANGED <<genesisBlock, chain, chainCap, chainArr, difficulty, now, pc,
                   lastBlock, base, started, returned, allocs, validResult, tamper>>

\* mine returns
MineExit(p) ==
    /\ pc[p] = "mine"
    /\ difficulty >= 0
    /\ ~ MineContinues(newBlock[p], difficulty)
    /\ pc' = [pc EXCEPT ![p] = "append"]
    /\ UNCHANGED <<genesisBlock, chain, chainCap, chainArr, difficulty, now,
                   lastBlock, newBlock, base, hashes, started, returned, allocs,
                   validResult, tamper>>

\* line 112: append loads the slice b.chain
AppendLoad(p) ==
    /\ pc[p] = "append"
    /\ base' = [base EXCEPT ![p] = [elems |-> chain, cap |-> chainCap, arr |-> chainArr]]
    /\ pc' = [pc EXCEPT ![p] = "store"]
    /\ UNCHANGED <<genesisBlock, chain, chainCap, chainArr, difficulty, now,
                   lastBlock, newBlock, hashes, started, returned, allocs,
                   validResult, tamper>>

\* what a slot holds after two unsynchronized writes of a Block to it: every
\* field is the one or the other
Torn(a, b) ==
    { [data |-> x[1].data, hash |-> x[2].hash, previousHash |-> x[3].previousHash,
       timestamp |-> x[4].timestamp, pow |-> x[5].pow] :
         x \in [1 .. 5 -> {a, b}] }

\* an append that overwrites the last element
ReplaceLast(s, b) == [s EXCEPT ![Len(s)] = b]

\* the elements of append(s, b)
AppendTo(s, b) == Append(s, b)

\* runtime.growslice for a slice of Blocks that is full
GrowCap(cap) == 2 * cap

\* line 112: append writes the element (into the loaded backing array while it
\* has room, else into a grown copy) and b.chain is assigned
AppendStore(p) ==
    /\ pc[p] = "store"
    /\ LET s == base[p]
           slot == Len(s.elems) + 1
       IN  IF Len(s.elems) < s.cap
           THEN /\ \E b \in (IF chainArr = s.arr /\ Len(chain) >= slot
                             THEN Torn(chain[slot], newBlock[p])
                             ELSE {newBlock[p]}) :
                       chain' = AppendTo(s.elems, b)
                /\ chainCap' = s.cap
                /\ chainArr' = s.arr
                /\ allocs' = allocs
           ELSE /\ chain' = AppendTo(s.elems, newBlock[p])
                /\ chainCap' = GrowCap(s.cap)
                /\ chainArr' = allocs + 1
                /\ allocs' = allocs + 1
    /\ pc' = [pc EXCEPT ![p] = "idle"]
    /\ returned' = [returned EXCEPT ![p] = @ + 1]
    /\ validResult' = "none"
    /\ base' = [base EXCEPT ![p] = NilSlice]
    /\ UNCHANGED <<genesisBlock, difficulty, now, lastBlock, newBlock,
                   hashes, started, tamper>>

\* an IsValid() that stores every hash it recomputes
IsValidCallStoring(p) ==
    /\ pc[p] = "idle"
    /\ validResult' = IF IsValid(chain) THEN "true" ELSE "false"
    /\ chain' = [i \in 1 .. Len(chain) |->
                    IF i = 1 THEN chain[i]
                    ELSE [chain[i] EXCEPT !.hash = calculateHash(chain[i])]]
    /\ UNCHANGED <<genesisBlock, chainCap, chainArr, difficulty, now, pc,
                   lastBlock, newBlock, base, hashes, started, returned, allocs,
                   tamper>>

\* IsValid() called by a caller that is not inside AddTransaction
IsValidCall(p) ==
    /\ pc[p] = "idle"
    /\ validResult' = IF IsValid(chain) THEN "true" ELSE "false"
    /\ UNCHANGED <<genesisBlock, chain, chainCap, chainArr, difficulty, now, pc,
                   lastBlock, newBlock, base, hashes, started, returned, allocs,
                   tamper>>

\* one caller, as in main
Next ==
    \/ Begin(1)
    \/ MinePanic(1)
    \/ MineStep(1)
    \/ MineExit(1)
    \/ AppendLoad(1)
    \/ AppendStore(1)
    \/ IsValidCall(1)

Spec == Init /\ [][Next]_vars

\* the running program keeps executing the call it is in; when the caller
\* makes its next call is up to the caller
FairSpec ==
    /\ Spec
    /\ WF_vars(MinePanic(1))
    /\ WF_vars(MineStep(1))
    /\ WF_vars(MineExit(1))
    /\ WF_vars(AppendLoad(1))
    /\ WF_vars(AppendStore(1))

(* ------------------- unsynchronized concurrent callers ------------------ *)
\* slice headers are loaded and stored as a unit
ConcNext ==
    \E p \in Procs :
        \/ Begin(p)
        \/ MinePanic(p)
        \/ MineStep(p)
        \/ MineExit(p)
        \/ AppendLoad(p)
        \/ AppendStore(p)
        \/ IsValidCall(p)

ConcSpec == Init /\ [][ConcNext]_vars

(* ------------------------ out-of-band writes ---------------------------- *)
Quiet == tamper = "none" /\ \A p \in Procs : pc[p] = "idle"

\* b.chain[i].data[key] = v on a non-genesis block, hash left as it is
TamperPayload ==
    /\ Quiet
    /\ \E i \in 2 .. Len(chain), key \in {"from", "to", "amount"} :
        \E v \in (IF key = "amount" THEN TamperAmounts ELSE TamperNames) :
            /\ v /= Get(chain[i].data, key)
            /\ chain' = [chain EXCEPT ![i].data =
                            (@ \ {<<key, Get(@, key)>>}) \cup {<<key, v>>}]
    /\ tamper' = "payload"
    /\ validResult' = "none"
    /\ UNCHANGED <<genesisBlock, chainCap, chainArr, difficulty, now, pc, lastBlock,
                   newBlock, base, hashes, started, returned, allocs>>

\* b.chain[i], b.chain[j] = b.chain[j], b.chain[i] for two non-genesis blocks
\* that are not neighbours
SwapBlocks ==
    /\ Quiet
    /\ \E i \in 2 .. Len(chain), j \in 2 .. Len(chain) :
        /\ i + 1 < j
        /\ chain' = [chain EXCEPT ![i] = chain[j], ![j] = chain[i]]
    /\ tamper' = "swap"
    /\ validResult' = "none"
    /\ UNCHANGED <<genesisBlock, chainCap, chainArr, difficulty, now, pc, lastBlock,
                   newBlock, base, hashes, started, returned, allocs>>

\* data[key] = v
WithField(data, key, v) == (data \ {<<key, Get(data, key)>>}) \cup {<<key, v>>}

\* a payload field and a value for it that differs from the one b holds
Alterations(b) ==
    { kv \in ({"from", "to"} \X TamperNames) \cup ({"amount"} \X TamperAmounts) :
          kv[2] /= Get(b.data, kv[1]) }

\* mine(d) run to its return; fuel is the number of values an int has, after
\* which the loop has tried every pow
RECURSIVE MineLoop(_, _, _)
MineLoop(b, d, fuel) ==
    IF fuel = 0 \/ ~ MineContinues(b, d) THEN b
    ELSE MineLoop(MineBody(b), d, fuel - 1)

mine(b, d) == MineLoop(b, d, 2 ^ IntBits)

\* a payload write on a non-genesis block followed by hash = calculateHash(),
\* the proof left as it is
Reseal ==
    /\ Quiet
    /\ \E i \in 2 .. Len(chain) : \E kv \in Alterations(chain[i]) :
        LET b1 == [chain[i] EXCEPT !.data = WithField(@, kv[1], kv[2])]
        IN  chain' = [chain EXCEPT ![i] = [b1 EXCEPT !.hash = calculateHash(b1)]]
    /\ tamper' = "reseal"
    /\ validResult' = "none"
    /\ UNCHANGED <<genesisBlock, chainCap, chainArr, difficulty, now, pc, lastBlock,
                   newBlock, base, hashes, started, returned, allocs>>

\* a payload write on a non-genesis block followed by a new mining of it: the
\* stored hash is cleared, the proof is cleared or kept, and mine is run
Remine ==
    /\ Quiet
    /\ difficulty >= 0
    /\ \E i \in 2 .. Len(chain) : \E kv \in Alterations(chain[i]) :
        \E pow0 \in {0, chain[i].pow} :
            LET b1 == [chain[i] EXCEPT !.data = WithField(@, kv[1], kv[2]),
                                       !.hash = EmptyString,
                                       !.pow = pow0]
                b2 == mine(b1, difficulty)
            IN  /\ ~ MineContinues(b2, difficulty)
                /\ chain' = [chain EXCEPT ![i] = b2]
                /\ tamper' = IF i = Len(chain) THEN "remine_tip" ELSE "remine_inner"
    /\ validResult' = "none"
    /\ UNCHANGED <<genesisBlock, chainCap, chainArr, difficulty, now, pc, lastBlock,
                   newBlock, base, hashes, started, returned, allocs>>

\* a non-genesis block is taken out of b.chain, the others stay as they are
RemoveBlock ==
    /\ Quiet
    /\ \E i \in 2 .. Len(chain) :
        /\ chain' = SubSeq(chain, 1, i - 1) \o SubSeq(chain, i + 1, Len(chain))
        /\ tamper' = IF i = Len(chain) THEN "remove_tip" ELSE "remove_inner"
    /\ validResult' = "none"
    /\ UNCHANGED <<genesisBlock, chainCap, chainArr, difficulty, now, pc, lastBlock,
                   newBlock, base, hashes, started, returned, allocs>>

\* a write to the payload, the timestamp or the proof of b.chain[0]
TamperGenesis ==
    /\ Quiet
    /\ \/ \E tx \in Transactions :
            chain' = [chain EXCEPT ![1].data = BlockData(tx[1], tx[2], tx[3])]
       \/ \E ts \in 0 .. MaxTime + 1 :
            /\ ts /= chain[1].timestamp
            /\ chain' = [chain EXCEPT ![1].timestamp = ts]
       \/ \E n \in MinInt .. MaxInt :
            /\ n /= chain[1].pow
            /\ chain' = [chain EXCEPT ![1].pow = n]
    /\ tamper' = "genesis"
    /\ validResult' = "none"
    /\ UNCHANGED <<genesisBlock, chainCap, chainArr, difficulty, now, pc, lastBlock,
                   newBlock, base, hashes, started, returned, allocs>>

\* a write to the hash of b.chain[0]
TamperGenesisHash ==
    /\ Quiet
    /\ \E h \in {EmptyString, calculateHash(chain[1])} :
        chain' = [chain EXCEPT ![1].hash = h]
    /\ tamper' = "genesis_hash"
    /\ validResult' = "none"
    /\ UNCHANGED <<genesisBlock, chainCap, chainArr, difficulty, now, pc, lastBlock,
                   newBlock, base, hashes, started, returned, allocs>>

TamperNext ==
    \/ (tamper = "none" /\ Next)
    \/ IsValidCall(1)
    \/ TamperPayload
    \/ SwapBlocks
    \/ Reseal
    \/ Remine
    \/ RemoveBlock
    \/ TamperGenesis
    \/ TamperGenesisHash

TamperSpec == Init /\ [][TamperNext]_vars

(* ------------------------------ properties ----------------------------- *)
\* the blocks AddTransaction has put into the chain
Appended == 2 .. Len(chain)

\* C1: for every difficulty d >= 0 and after any number of AddTransaction
\* calls, every non-genesis block's stored hash equals calculateHash() of its
\* fields and IsValid() is true.
C1_HashesMatch ==
    difficulty >= 0 =>
        /\ \A i \in Appended : chain[i].hash = calculateHash(chain[i])
        /\ IsValid(chain)

\* C2: with difficulty 0 the mining of an appended block computed exactly one
\* hash and the block is stored with pow = 1 and the hash computed at pow = 1.
C2_OneAttempt ==
    (difficulty = 0 /\ pc[1] = "idle" /\ returned[1] >= 1) =>
        /\ hashes[1] = 1
        /\ chain[Len(chain)].pow = 1
        /\ chain[Len(chain)].hash = calculateHash([chain[Len(chain)] EXCEPT !.pow = 1])

\* some value of pow gives b a hash that meets target d
Solvable(b, d) ==
    \/ HasZeroPrefix(b.hash, d)
    \/ \E n \in MinInt .. MaxInt : HasZeroPrefix(calculateHash([b EXCEPT !.pow = n]), d)

\* C3 as stated: for every difficulty d >= 0 a started mine terminates and
\* the AddTransaction call returns.
C3_AlwaysTerminates ==
    (pc[1] = "mine" /\ difficulty >= 0) ~> (pc[1] = "idle")

\* C3 amended: mine terminates, and AddTransaction returns with its block
\* appended, when some value of pow gives the block a hash with d leading
\* zeros; with d above the length of a digest mine never returns.
C3_TerminatesWhenSolvable ==
    /\ (pc[1] = "mine" /\ difficulty >= 0 /\ Solvable(newBlock[1], difficulty))
          ~> (pc[1] = "idle" /\ chain[Len(chain)] = newBlock[1])
    /\ [][(pc[1] = "mine" /\ difficulty > HashLen) => pc'[1] = "mine"]_vars

C3_Witness ==
    /\ pc[1] = "idle" /\ returned[1] >= 1 /\ difficulty = 2
    /\ hashes[1] >= 2
    /\ chain[Len(chain)] = newBlock[1]

\* C4: after one or more AddTransaction calls every block's previousHash is
\* the stored hash of the block before it; for the first appended block that
\* is the "0" of the genesis block.
C4_Linkage ==
    returned[1] >= 1 =>
        /\ \A i \in Appended : chain[i].previousHash = chain[i - 1].hash
        /\ chain[2].previousHash = ZeroString

C4_Witness ==
    /\ returned[1] >= 3 /\ difficulty >= 1
    /\ chain[3].previousHash = chain[2].hash /\ chain[3].previousHash.len = HashLen

\* C5: for every difficulty d >= 0 every appended block's stored hash begins
\* with at least d '0' characters.
C5_MeetsTarget ==
    difficulty >= 0 => \A i \in Appended : chain[i].hash.zeros >= difficulty

C5_Witness ==
    /\ difficulty = 2 /\ Len(chain) >= 3
    /\ \E i \in Appended : chain[i].pow >= 2 /\ chain[i].hash.zeros >= 2

\* C6: after a payload field of a non-genesis block was changed to a
\* different value, the stored hash left alone, IsValid() is false.
C6_TamperDetected ==
    tamper = "payload" => ~ IsValid(chain)

\* C7: after two non-adjacent non-genesis blocks of a chain built by
\* AddTransaction were swapped, IsValid() is false.
C7_SwapDetected ==
    tamper = "swap" => (~ IsValid(chain) /\ validResult /= "true")

C7_Witness ==
    /\ tamper = "swap" /\ difficulty >= 1 /\ validResult = "false"
    /\ \A i \in Appended : chain[i].hash = calculateHash(chain[i])

\* C8: on a ledger fresh from CreateBlockchain, before any AddTransaction,
\* IsValid() returns true whatever the difficulty.
C8_FreshIsValid ==
    started = 0 => (IsValid(chain) /\ validResult /= "false")

C8_Witness ==
    started = 0 /\ validResult = "true" /\ Len(chain) = 1

\* C9: the chain has one block more than AddTransaction calls have returned,
\* its first block is the genesis block, every return extends the previous
\* chain by one block, no other step changes the chain, and no step changes
\* difficulty or genesisBlock.
C9_AppendOnly ==
    /\ [](Len(chain) = returned[1] + 1 /\ chain[1] = genesisBlock)
    /\ [][/\ difficulty' = difficulty
          /\ genesisBlock' = genesisBlock
          /\ returned'[1] = returned[1] => chain' = chain
          /\ returned'[1] /= returned[1] =>
                /\ returned'[1] = returned[1] + 1
                /\ Len(chain') = Len(chain) + 1
                /\ SubSeq(chain', 1, Len(chain)) = chain]_vars

C9_Witness ==
    returned[1] = 3 /\ Len(chain) = 4 /\ chain[1] = genesisBlock

\* all AddTransaction calls that have returned
Returned == returned[1] + returned[2]

\* C10: when the latest AddTransaction calls of two unsynchronized callers
\* read the same last block, their two blocks were mined against the same
\* previousHash, and once both have returned the chain fails IsValid() or an
\* append was lost.
C10_RaceBreaksChain ==
    (/\ pc[1] = "idle" /\ pc[2] = "idle"
     /\ returned[1] >= 1 /\ returned[2] >= 1
     /\ lastBlock[1] = lastBlock[2]) =>
        /\ newBlock[1].previousHash = newBlock[2].previousHash
        /\ ~ IsValid(chain) \/ Len(chain) < 1 + Returned

\* both blocks are in the chain, which then is not valid
C10_Witness ==
    /\ pc[1] = "idle" /\ pc[2] = "idle"
    /\ returned[1] = 1 /\ returned[2] = 1
    /\ lastBlock[1] = lastBlock[2]
    /\ difficulty >= 1
    /\ Len(chain) = 3
    /\ chain[2].previousHash = chain[3].previousHash
    /\ ~ IsValid(chain)

\* the string IsValid() would return now
ValidNow == IF IsValid(chain) THEN "true" ELSE "false"

\* C11: a call of IsValid(), on a chain built by AddTransaction or on a
\* tampered one, changes neither the chain nor the genesis block nor the
\* difficulty, and the result it gave is the result a further call gives.
C11_IsValidReadOnly ==
    /\ [](validResult /= "none" => validResult = ValidNow)
    /\ [][(validResult' /= "none" /\ validResult' /= validResult) =>
             /\ chain' = chain
             /\ chainCap' = chainCap
             /\ chainArr' = chainArr
             /\ genesisBlock' = genesisBlock
             /\ difficulty' = difficulty]_vars

C11_Witness ==
    /\ tamper = "payload" /\ validResult = "false"
    /\ \E i \in Appended : chain[i].hash /= calculateHash(chain[i])

AllPairsPass ==
    \A i \in 2 .. Len(chain) :
        /\ chain[i].hash = calculateHash(chain[i])
        /\ chain[i].previousHash = chain[i - 1].hash

\* C14: on every chain, tampered ones included, IsValid() is true exactly
\* when every block from the second to the last has hash == calculateHash()
\* and previousHash == the hash of the block before it; nothing else, such as
\* the difficulty target, enters the result.
C14_IsValidIff ==
    /\ IsValid(chain) <=> AllPairsPass
    /\ validResult /= "none" => (validResult = "true" <=> AllPairsPass)

\* a chain that passes although one of its blocks misses the target
C14_Witness ==
    /\ tamper = "reseal" /\ validResult = "true" /\ Len(chain) >= 3
    /\ \E i \in Appended : chain[i].hash.zeros < difficulty

\* C15: when mine(d) returns on the fresh block of AddTransaction, pow is the
\* least n >= 1 whose hash has d leading zeros, the stored hash is
\* calculateHash() at that pow, and one hash was computed for each of 1..pow.
C15_LeastProof ==
    (pc[1] = "append" /\ difficulty >= 0) =>
        LET b == newBlock[1] IN
        /\ b.pow >= 1
        /\ b.hash = calculateHash(b)
        /\ HasZeroPrefix(b.hash, difficulty)
        /\ \A n \in 1 .. b.pow - 1 :
              ~ HasZeroPrefix(calculateHash([b EXCEPT !.pow = n]), difficulty)
        /\ hashes[1] = (IF b.pow < MaxCount THEN b.pow ELSE MaxCount)

\* C16: a write to the payload, the timestamp or the proof of chain[0] leaves
\* the result of IsValid() as it was; a write to the hash of chain[0] makes a
\* chain with a second block fail, that hash being the previousHash expected
\* of chain[1].
C16_GenesisTrusted ==
    /\ [][(tamper = "none" /\ tamper' = "genesis") =>
             (IsValid(chain') <=> IsValid(chain))]_vars
    /\ [][(tamper = "none" /\ tamper' = "genesis_hash" /\ Len(chain) >= 2) =>
             ~ IsValid(chain')]_vars
    /\ [](tamper = "genesis" /\ validResult /= "none" =>
             (validResult = "true" <=> AllPairsPass))

C16_Witness ==
    /\ tamper = "genesis" /\ validResult = "true" /\ Len(chain) >= 3
    /\ chain[1] /= genesisBlock /\ chain[1].hash = genesisBlock.hash

C18_NegativeDifficulty ==
    /\ [](difficulty < 0 =>
             /\ chain = <<genesisBlock>>
             /\ IsValid(chain)
             /\ validResult /= "false"
             /\ returned[1] = 0
             /\ pc[1] \in {"idle", "mine", "panic"})
    /\ [][(difficulty < 0 /\ pc[1] = "mine") =>
             (pc'[1] = "panic" /\ chain' = chain)]_vars
    /\ [][(difficulty < 0 /\ pc[1] = "panic") => pc'[1] = "panic"]_vars

C18_Witness ==
    /\ difficulty < 0 /\ pc[1] = "panic" /\ started = 1
    /\ validResult = "true" /\ chain = <<genesisBlock>>

\* C19: after the payload of a non-genesis block was altered and the block
\* mined again, IsValid() is false when the block is not the last one (its
\* successor still carries the old hash) and true when it is the last one.
C19_RemineDetected ==
    /\ tamper = "remine_inner" => ~ IsValid(chain)
    /\ tamper = "remine_tip" => IsValid(chain)

====
